---- MODULE Spec2Model ----
(***************************************************************************)
(* A model of Growler's request routing (growler/router.py) and of its     *)
(* asyncio HTTP protocol object (growler/aio/http_protocol.py).            *)
(*                                                                         *)
(* Text is modelled by TLA+ strings (TLC evaluates Len, SubSeq and \o on   *)
(* them), so a path, a regular expression and an HTTP response are the     *)
(* character strings the Python code builds.                               *)
(***************************************************************************)
EXTENDS Integers, Sequences, FiniteSets, TLC

VARIABLES
    mw_list,      \* Router.mw_list: the registered entries, in order
    deco,         \* the decorator last returned by a verb method, or NoDeco
    ret,          \* what the router's last call returned (or that it raised)
    c_path,       \* the sinatra path last given to sinatra_path_to_regex
    c_regex,      \* what it returned: the compiled pattern, or the re.error
    c_str,        \* the request path last matched against c_regex
    c_match,      \* the outcome of that match
    conn,         \* the protocol's state: Unconnected, Connected or Closed
    transport,    \* GrowlerProtocol.transport, None before a connection
    responders,   \* GrowlerProtocol.responders
    fed,          \* the data the responders' on_data was called with, in order
    writes,       \* what transport.write was called with, in order
    stderr,       \* the number of traces printed to sys.stderr
    tasks,        \* the tasks create_task scheduled, in order
    connects,     \* how many times the protocol became Connected
    events,       \* how many transport callbacks were delivered
    p_ret,        \* the last callback: its outcome and the state before it
    future,       \* the Future of body_storage_pair: unmade, pending or done
    sender,       \* where the send_body generator stands
    sent,         \* the values the sender was driven with, in order
    resolutions,  \* how many times the future's result was set
    reader,       \* the caller awaiting the future: idle, waiting or resumed
    b_ret,        \* the last call on the pair: its outcome
    klass,        \* the attributes of a class body, in the order defined
    frames,       \* the callbacks begun and not returned: what each has left
    trace,        \* what happened on the connection, in order
    awaiting_body \* the request whose body the responder awaits, or 0

router_vars == <<mw_list, deco, ret>>

compile_vars == <<c_path, c_regex, c_str, c_match>>

proto_vars ==
    <<conn, transport, responders, fed, writes, stderr, tasks, connects,
      events, p_ret>>

body_vars == <<future, sender, sent, resolutions, reader, b_ret>>

class_vars == <<klass>>

pipe_vars == <<frames, trace, awaiting_body>>

not_router == <<compile_vars, proto_vars, body_vars, class_vars, pipe_vars>>

not_compile == <<router_vars, proto_vars, body_vars, class_vars, pipe_vars>>

not_proto == <<router_vars, compile_vars, body_vars, class_vars, pipe_vars>>

not_body == <<router_vars, compile_vars, proto_vars, class_vars, pipe_vars>>

not_class == <<router_vars, compile_vars, proto_vars, body_vars, pipe_vars>>

not_pipe == <<router_vars, compile_vars, body_vars, class_vars>>

vars ==
    <<router_vars, compile_vars, proto_vars, body_vars, class_vars, pipe_vars>>

(***************************************************************************)
(* Bounds of the model.                                                    *)
(***************************************************************************)
\* the most entries registered on the router
MaxEntries == 2

\* the most segments of a path given to sinatra_path_to_regex
MaxSegs == 2

\* the most callbacks the transport delivers to one protocol object
MaxEvents == 4

\* the most times the sender of one body_storage_pair is driven
MaxSends == 3

\* the most attributes in the body of a class given to routerclass
MaxAttrs == 3

\* the most chunks of data that arrive on one connection
MaxChunks == 4

(***************************************************************************)
(* Text helpers.                                                           *)
(***************************************************************************)
\* s[a-1:b] of a Python str: a slice, which never fails on its bounds
Slice(s, a, b) ==
    IF a > b \/ a > Len(s) THEN ""
    ELSE SubSeq(s, a, IF b > Len(s) THEN Len(s) ELSE b)

\* s[i-1] of a Python str ("" past its end)
Ch(s, i) == Slice(s, i, i)

\* s[i-1:] of a Python str
StrFrom(s, i) == Slice(s, i, Len(s))

\* s.startswith(p, i-1)
StartsWithAt(s, i, p) == Slice(s, i, i + Len(p) - 1) = p

\* the characters \w matches among the characters the inputs are written in
WordChars ==
    {"a", "b", "c", "d", "e", "f", "g", "h", "i", "j", "k", "l", "m",
     "n", "o", "p", "q", "r", "s", "t", "u", "v", "w", "x", "y", "z",
     "0", "1", "2", "3", "4", "5", "6", "7", "8", "9", "_"}

Digits == {"0", "1", "2", "3", "4", "5", "6", "7", "8", "9"}

\* the number of leading characters of s[pos:] that satisfy the class cls
\* ("w": a word character, "any": any character, otherwise: that character)
RECURSIVE RunLen(_, _, _)
RunLen(s, pos, cls) ==
    IF pos > Len(s) THEN 0
    ELSE IF \/ cls = "any"
            \/ cls = "w" /\ Ch(s, pos) \in WordChars
            \/ cls = Ch(s, pos)
         THEN 1 + RunLen(s, pos + 1, cls)
         ELSE 0

\* s.find(c, pos-1) + 1: the first index >= pos holding c, 0 when there is none
RECURSIVE FindCh(_, _, _)
FindCh(s, pos, c) ==
    IF pos > Len(s) THEN 0
    ELSE IF Ch(s, pos) = c THEN pos
    ELSE FindCh(s, pos + 1, c)

\* s.split('/')
RECURSIVE Split(_)
Split(s) ==
    LET j == FindCh(s, 1, "/")
    IN  IF j = 0 THEN <<s>>
        ELSE <<Slice(s, 1, j - 1)>> \o Split(StrFrom(s, j + 1))

\* '/'.join(segs)
RECURSIVE Join(_)
Join(segs) ==
    IF Len(segs) = 0 THEN ""
    ELSE IF Len(segs) = 1 THEN segs[1]
    ELSE segs[1] \o "/" \o Join(Tail(segs))

(***************************************************************************)
(* Python's re, for the patterns the router builds: literal characters,    *)
(* '.', the quantifiers '+' and '*' on one character, and the named group  *)
(* (?P<name>\w+).  An atom is [cls, q, name]: the character class, the     *)
(* quantifier ("1", "+", "*") and the group's name ("" for no group).      *)
(***************************************************************************)
ReFail == [ok |-> FALSE, atoms |-> <<>>]

\* str.isidentifier(), which re.compile asks of a group's name
IsIdentifier(name) ==
    /\ Len(name) > 0
    /\ Ch(name, 1) \notin Digits
    /\ \A i \in 1..Len(name) : Ch(name, i) \in WordChars

GroupNames(atoms) == {atoms[i].name : i \in 1..Len(atoms)} \ {""}

\* characters with a meaning in a pattern that this model does not interpret
Unsupported == {"(", ")", "[", "]", "{", "}", "?", "|", "^", "$", "\\"}

\* sre_parse.parse: the atoms of pattern p from index i on, after `atoms`
RECURSIVE re_parse(_, _, _)
re_parse(p, i, atoms) ==
    IF i > Len(p) THEN [ok |-> TRUE, atoms |-> atoms]
    ELSE IF StartsWithAt(p, i, "(?P<")
    THEN LET j    == FindCh(p, i + 4, ">")
             name == Slice(p, i + 4, j - 1)
         IN  IF /\ j > 0
                /\ StartsWithAt(p, j + 1, "\\w+)")
                /\ IsIdentifier(name)
                /\ name \notin GroupNames(atoms)
             THEN re_parse(p, j + 5,
                      Append(atoms, [cls |-> "w", q |-> "+", name |-> name]))
             ELSE ReFail
    ELSE IF Ch(p, i) \in {"+", "*"}
    THEN IF Len(atoms) > 0 /\ atoms[Len(atoms)].q = "1"
         THEN re_parse(p, i + 1,
                  [atoms EXCEPT ![Len(atoms)].q = Ch(p, i)])
         ELSE ReFail
    ELSE IF Ch(p, i) \in Unsupported THEN ReFail
    ELSE re_parse(p, i + 1,
             Append(atoms, [cls  |-> IF Ch(p, i) = "." THEN "any" ELSE Ch(p, i),
                            q    |-> "1",
                            name |-> ""]))

NoMatch == [ok |-> FALSE, end |-> 0, caps |-> <<>>]

\* the backtracking matcher: atoms[i..] against s[pos..]; a quantified atom
\* takes the longest run first and gives characters back one at a time
RECURSIVE re_match_at(_, _, _, _, _)
RECURSIVE re_try(_, _, _, _, _, _)
re_match_at(atoms, i, s, pos, caps) ==
    IF i > Len(atoms) THEN [ok |-> TRUE, end |-> pos - 1, caps |-> caps]
    ELSE LET a == atoms[i]
             n == RunLen(s, pos, a.cls)
         IN  IF a.q = "1"
             THEN IF n >= 1 THEN re_match_at(atoms, i + 1, s, pos + 1, caps)
                  ELSE NoMatch
             ELSE re_try(atoms, i, s, pos, caps, n)

re_try(atoms, i, s, pos, caps, n) ==
    LET a    == atoms[i]
        least == IF a.q = "+" THEN 1 ELSE 0
        caps2 == IF a.name = "" THEN caps
                 ELSE Append(caps, [name |-> a.name,
                                    val  |-> Slice(s, pos, pos + n - 1)])
    IN  IF n < least THEN NoMatch
        ELSE LET r == re_match_at(atoms, i + 1, s, pos + n, caps2)
             IN  IF r.ok THEN r ELSE re_try(atoms, i, s, pos, caps, n - 1)

\* re.compile(p): a pattern object, or the re.error it raises
re_compile(p) ==
    IF re_parse(p, 1, <<>>).ok THEN [t |-> "regex", v |-> p]
    ELSE [t |-> "error", v |-> p]

\* pattern.match(s): anchored at the start of s, not at its end
re_match(pattern, s) ==
    re_match_at(re_parse(pattern.v, 1, <<>>).atoms, 1, s, 1, <<>>)

\* match.groupdict(): the value bound to name, "" when there is none
RECURSIVE GroupOf(_, _)
GroupOf(caps, name) ==
    IF Len(caps) = 0 THEN ""
    ELSE IF caps[1].name = name THEN caps[1].val
    ELSE GroupOf(Tail(caps), name)

(***************************************************************************)
(* growler.http.HTTPMethod: the method masks, as sets of methods.          *)
(***************************************************************************)
Methods == {"GET", "POST", "PUT", "DELETE"}

HTTPMethod_ALL == Methods

HTTPMethod_GET == {"GET"}

HTTPMethod_POST == {"POST"}

HTTPMethod_PUT == {"PUT"}

HTTPMethod_DELETE == {"DELETE"}

(***************************************************************************)
(* The inputs of the router's operations.  A path argument is              *)
(* [t |-> "str", v |-> text] or an already compiled [t |-> "regex", ...].  *)
(***************************************************************************)
PathStr(text) == [t |-> "str", v |-> text]

None == "None"

Leaves == {"f"}

Routers == {"blog_router"}

Handlers == Leaves \cup Routers

\* a MiddlewareChain that is not a Router
Chains == {"plain_chain"}

\* isinstance(func, MiddlewareChain)
IsChain(func) == func \in Routers \cup Chains

\* isinstance(func, Router)
IsRouter(func) == func \in Routers

\* the functions a decorator is applied to
DecoFuncs == {"f", "g"}

\* the path given to a verb method called without a handler
DecoPaths == {"/users/:id"}

LeafPaths == {"/home", "/users/:id"}

MountPaths == {"/blog"}

ReqPaths ==
    {"/blog", "/blog/list", "/blogger", "/home", "/home/extra", "/users/42"}

\* every path by GET, and two of them by each other method
Requests ==
    [method : {"GET"}, path : ReqPaths]
        \cup [method : Methods, path : {"/home", "/blog/list"}]

NoReq == [method |-> "", path |-> ""]

NoDeco == [set |-> FALSE, mask |-> {}, path |-> PathStr("")]

(***************************************************************************)
(* Router.sinatra_path_to_regex and the chain under the router.            *)
(***************************************************************************)
\* Router.sinatra_param_regex.match(segment): ':' and a word character
sinatra_param_match(segment) ==
    /\ Ch(segment, 1) = ":"
    /\ Ch(segment, 2) \in WordChars

\* r"(?P<{}>\w+)".format(segment[1:]) if it is a parameter, else the segment
sinatra_segment(segment) ==
    IF sinatra_param_match(segment)
    THEN "(?P<" \o StrFrom(segment, 2) \o ">\\w+)"
    ELSE segment

sinatra_path_to_regex(path) ==
    IF path.t = "regex" THEN path
    ELSE LET segs == Split(path.v)
         IN  re_compile(Join([i \in 1..Len(segs) |-> sinatra_segment(segs[i])]))

\* MiddlewareChain.ROOT_PATTERN: the pattern that matches every path
ROOT_PATTERN == [t |-> "regex", v |-> ".*"]

\* MiddlewareChain.add: the entries after add(method_mask, path, func); the
\* path is compiled, and a path that does not compile adds nothing
add(list, method_mask, path, func) ==
    LET pattern == sinatra_path_to_regex(path)
    IN  IF pattern.t = "error" THEN list
        ELSE Append(list, [mask |-> method_mask, path |-> pattern, func |-> func])

add_raises(path) == sinatra_path_to_regex(path).t = "error"

\* the entry's path against the request's: whether it matched, the named
\* captures and the rest of the path after the match
path_split(mw, path) ==
    LET m == re_match(mw.path, path)
    IN  IF m.ok
        THEN [matching |-> TRUE, params |-> m.caps,
              rest |-> StrFrom(path, m.end + 1)]
        ELSE [matching |-> FALSE, params |-> <<>>, rest |-> ""]

\* should_skip_middleware without the check of the rest: bool(not matching)
should_skip_no_rest(middleware, matching, rest) == ~matching

\* should_skip_middleware letting a sub-chain take any rest
should_skip_chain_exempt(middleware, matching, rest) ==
    (~matching) \/ (rest # "" /\ ~IsChain(middleware.func))

\* Router.should_skip_middleware: bool(not matching) or bool(rest)
should_skip_middleware(middleware, matching, rest) ==
    (~matching) \/ (rest # "")

\* MiddlewareChain.__call__(method, path): the entries from index i on that
\* take the method and are not skipped, in the list's order
RECURSIVE chain_call(_, _, _, _)
chain_call(list, i, method, path) ==
    IF i > Len(list) THEN <<>>
    ELSE LET mw == list[i]
             ps == path_split(mw, path)
         IN  IF method \notin mw.mask
             THEN chain_call(list, i + 1, method, path)
             ELSE IF should_skip_middleware(mw, ps.matching, ps.rest)
             THEN chain_call(list, i + 1, method, path)
             ELSE <<[idx |-> i, func |-> mw.func,
                     params |-> ps.params, rest |-> ps.rest]>>
                  \o chain_call(list, i + 1, method, path)

(***************************************************************************)
(* The router's operations.  ret is what the last call returned: the       *)
(* router itself, a decorator, the decorated function, or what the         *)
(* generator of a match yielded; raised tells that the call raised.        *)
(***************************************************************************)
Returned(op, val) ==
    [op |-> op, val |-> val, raised |-> FALSE, req |-> NoReq, out |-> <<>>]

Raised(op) ==
    [op |-> op, val |-> None, raised |-> TRUE, req |-> NoReq, out |-> <<>>]

\* Router._add_route: with a middleware, add it; without, return a decorator
_add_route(method, path, middleware) ==
    /\ Len(mw_list) < MaxEntries
    /\ IF middleware # None
       THEN /\ mw_list' = add(mw_list, method, path, middleware)
            /\ ret' = IF add_raises(path) THEN Raised("_add_route")
                      ELSE Returned("_add_route", "self")
            /\ UNCHANGED <<deco, not_router>>
       ELSE /\ deco' = [set |-> TRUE, mask |-> method, path |-> path]
            /\ ret' = Returned("_add_route", "decorator")
            /\ UNCHANGED <<mw_list, not_router>>

all(path, middleware) == _add_route(HTTPMethod_ALL, path, middleware)

get(path, middleware) == _add_route(HTTPMethod_GET, path, middleware)

post(path, middleware) == _add_route(HTTPMethod_POST, path, middleware)

put(path, middleware) == _add_route(HTTPMethod_PUT, path, middleware)

delete(path, middleware) == _add_route(HTTPMethod_DELETE, path, middleware)

\* the lambda returning the router, as _add_route does with a middleware
decorator_returns_self(func) ==
    /\ deco.set
    /\ Len(mw_list) < MaxEntries
    /\ mw_list' = add(mw_list, deco.mask, deco.path, func)
    /\ ret' = IF add_raises(deco.path) THEN Raised("decorator")
              ELSE Returned("decorator", "self")
    /\ UNCHANGED <<deco, not_router>>

\* the lambda _add_route returned, applied to func
decorator(func) ==
    /\ deco.set
    /\ Len(mw_list) < MaxEntries
    /\ mw_list' = add(mw_list, deco.mask, deco.path, func)
    /\ ret' = IF add_raises(deco.path) THEN Raised("decorator")
              ELSE Returned("decorator", func)
    /\ UNCHANGED <<deco, not_router>>

\* use registering the middleware for GET requests alone
use_get_only(middleware, path) ==
    /\ Len(mw_list) < MaxEntries
    /\ LET p == IF path = None THEN ROOT_PATTERN ELSE PathStr(path)
       IN  /\ mw_list' = add(mw_list, HTTPMethod_GET, p, middleware)
           /\ ret' = IF add_raises(p) THEN Raised("use")
                     ELSE Returned("use", "self")
    /\ UNCHANGED <<deco, not_router>>

\* use putting the middleware before the entries already registered
use_first(middleware, path) ==
    /\ Len(mw_list) < MaxEntries
    /\ LET p == IF path = None THEN ROOT_PATTERN ELSE PathStr(path)
       IN  /\ mw_list' = add(<<>>, HTTPMethod_ALL, p, middleware) \o mw_list
           /\ ret' = IF add_raises(p) THEN Raised("use")
                     ELSE Returned("use", "self")
    /\ UNCHANGED <<deco, not_router>>

\* Router.use(middleware, path=None)
use(middleware, path) ==
    /\ Len(mw_list) < MaxEntries
    /\ LET p == IF path = None THEN ROOT_PATTERN ELSE PathStr(path)
       IN  /\ mw_list' = add(mw_list, HTTPMethod_ALL, p, middleware)
           /\ ret' = IF add_raises(p) THEN Raised("use")
                     ELSE Returned("use", "self")
    /\ UNCHANGED <<deco, not_router>>

\* Router.add_router(path, router)
add_router(path, router) ==
    /\ Len(mw_list) < MaxEntries
    /\ mw_list' = add(mw_list, HTTPMethod_ALL, path, router)
    /\ ret' = IF add_raises(path) THEN Raised("add_router")
              ELSE Returned("add_router", "self")
    /\ UNCHANGED <<deco, not_router>>

\* filter(keep, list): the entries of the list from index i on whose handler
\* is in keep, in the list's order
RECURSIVE filter_list(_, _, _)
filter_list(keep, list, i) ==
    IF i > Len(list) THEN <<>>
    ELSE (IF list[i].func \in keep
          THEN <<[idx |-> i, func |-> list[i].func,
                  params |-> <<>>, rest |-> ""]>>
          ELSE <<>>) \o filter_list(keep, list, i + 1)

\* subrouters keeping every entry whose handler is a MiddlewareChain
subrouters_chains ==
    /\ ret' = [op |-> "subrouters", val |-> "generator", raised |-> FALSE,
               req |-> NoReq,
               out |-> filter_list({h \in Handlers \cup Chains \cup DecoFuncs :
                                       IsChain(h)}, mw_list, 1)]
    /\ UNCHANGED <<mw_list, deco, not_router>>

\* Router.subrouters, the generator read to its end:
\* filter(lambda mw: isinstance(mw.func, Router), self.mw_list)
subrouters ==
    /\ ret' = [op |-> "subrouters", val |-> "generator", raised |-> FALSE,
               req |-> NoReq,
               out |-> filter_list({h \in Handlers \cup Chains \cup DecoFuncs :
                                       IsRouter(h)}, mw_list, 1)]
    /\ UNCHANGED <<mw_list, deco, not_router>>

\* match_routes calling the chain with its arguments swapped
match_routes_swapped(r) ==
    /\ ret' = [op |-> "match_routes", val |-> "generator", raised |-> FALSE,
               req |-> r, out |-> chain_call(mw_list, 1, r.path, r.method)]
    /\ UNCHANGED <<mw_list, deco, not_router>>

\* Router.match_routes(req), the generator it returns read to its end
match_routes(r) ==
    /\ ret' = [op |-> "match_routes", val |-> "generator", raised |-> FALSE,
               req |-> r, out |-> chain_call(mw_list, 1, r.method, r.path)]
    /\ UNCHANGED <<mw_list, deco, not_router>>

(***************************************************************************)
(* Routers made of the attributes of an object: routerclass and routerify, *)
(* and the build_router of the metaclass RouterMeta.  An attribute is its  *)
(* name, whether it is callable, and its docstring (None for none).        *)
(***************************************************************************)
Attributes ==
    {[name |-> "get_zebra",  callable |-> TRUE,  doc |-> "/zebra a zebra"],
     [name |-> "post_apple", callable |-> TRUE,  doc |-> "/apple"],
     [name |-> "all_any",    callable |-> TRUE,  doc |-> "/any"],
     [name |-> "helper",     callable |-> TRUE,  doc |-> "/helper"],
     [name |-> "get_nodoc",  callable |-> TRUE,  doc |-> None]}

\* sorted(names) for the names of Attributes: the order of dir(obj)
SortedNames == <<"all_any", "get_nodoc", "get_zebra", "helper", "post_apple">>

\* dir(obj): the names of the object's attributes, sorted
dir(body) ==
    SelectSeq(SortedNames,
        LAMBDA n : \E i \in 1..Len(body) : body[i].name = n)

\* classdict.keys(): the names in the order the class body defines them
classdict_keys(body) == [i \in 1..Len(body) |-> body[i].name]

\* getattr(obj, attr)
getattr(body, attr) == CHOOSE a \in Attributes : a.name = attr

\* ROUTABLE_NAME_REGEX.match(attr).group(1).upper(): the verb before the
\* first '_' of the name, "" when the name does not match
routable_method(attr) ==
    LET j    == FindCh(attr, 1, "_")
        verb == Slice(attr, 1, j - 1)
    IN  CASE j = 0           -> ""
          [] verb = "all"    -> "ALL"
          [] verb = "get"    -> "GET"
          [] verb = "post"   -> "POST"
          [] verb = "put"    -> "PUT"
          [] verb = "delete" -> "DELETE"
          [] OTHER           -> ""

\* HTTPMethod[method_str]
HTTPMethod_named(method_str) ==
    CASE method_str = "ALL"    -> HTTPMethod_ALL
      [] method_str = "GET"    -> HTTPMethod_GET
      [] method_str = "POST"   -> HTTPMethod_POST
      [] method_str = "PUT"    -> HTTPMethod_PUT
      [] method_str = "DELETE" -> HTTPMethod_DELETE

\* doc.split(maxsplit=1)[0]: the first word of the docstring
first_word(doc) ==
    LET j == FindCh(doc, 1, " ")
    IN  IF j = 0 THEN doc ELSE Slice(doc, 1, j - 1)

\* _find_routeable_attributes(obj, keys): of the keys from index i on, those
\* with a routable name, a callable value and a docstring, in the keys' order
RECURSIVE _find_routeable_attributes(_, _, _)
_find_routeable_attributes(body, keys, i) ==
    IF i > Len(keys) THEN <<>>
    ELSE LET val == getattr(body, keys[i])
         IN  (IF \/ routable_method(keys[i]) = ""
                 \/ ~val.callable
                 \/ val.doc = None
              THEN <<>>
              ELSE <<[val |-> val,
                      method_name |-> routable_method(keys[i])]>>)
             \o _find_routeable_attributes(body, keys, i + 1)

\* get_routing_attributes(obj, keys=keys): (method, path, val) of each
\* routable attribute whose docstring starts with a path
get_routing_attributes(body, keys) ==
    LET found  == _find_routeable_attributes(body, keys, 1)
        routes == [i \in 1..Len(found) |->
                      [method |-> HTTPMethod_named(found[i].method_name),
                       path   |-> first_word(found[i].val.doc),
                       func   |-> found[i].val.name]]
    IN  SelectSeq(routes, LAMBDA info : info.path # "")

\* router.add(method, path, func) for each of the routes, in their order
RECURSIVE add_routes(_, _)
add_routes(list, routes) ==
    IF Len(routes) = 0 THEN list
    ELSE add_routes(add(list, routes[1].method, PathStr(routes[1].path),
                        routes[1].func),
                    Tail(routes))

\* the class statement: one more attribute defined in the body of the class
define_attribute(a) ==
    /\ ret.op = "__init__"
    /\ Len(klass) < MaxAttrs
    /\ \A i \in 1..Len(klass) : klass[i].name # a.name
    /\ klass' = Append(klass, a)
    /\ UNCHANGED not_class

\* routerify(obj), which the __growler_router of a routerclass calls: a new
\* Router with the routes of get_routing_attributes(obj), whose keys are
\* dir(obj)
routerify ==
    /\ mw_list' = add_routes(<<>>, get_routing_attributes(klass, dir(klass)))
    /\ ret' = Returned("routerify", "router")
    /\ UNCHANGED <<deco, not_router>>

\* build_router(self) of RouterMeta: a new Router with the routes of
\* get_routing_attributes(self, keys=classdict.keys())
build_router ==
    /\ mw_list' = add_routes(<<>>, get_routing_attributes(klass,
                                       classdict_keys(klass)))
    /\ ret' = Returned("build_router", "router")
    /\ UNCHANGED <<deco, not_router>>

(***************************************************************************)
(* sinatra_path_to_regex as a function of its own: a path is compiled,     *)
(* and request paths are matched against the pattern it gave.              *)
(***************************************************************************)
SinatraSegs == {"users", ":id", ":n", "a+b", "a:id", ":id.x"}

RequestSegs == {"users", "42", "a+b", "aab"}

\* the paths of k segments drawn from S, each segment after a '/'
RECURSIVE PathsOfLen(_, _)
PathsOfLen(S, k) ==
    IF k = 0 THEN {""}
    ELSE {p \o "/" \o x : p \in PathsOfLen(S, k - 1), x \in S}

PathsOver(S) == UNION {PathsOfLen(S, k) : k \in 1..MaxSegs}

NoRegex == [t |-> "none", v |-> ""]

NoSplit == [matching |-> FALSE, params |-> <<>>, rest |-> ""]

\* Router.sinatra_path_to_regex(path)
compile_path(path) ==
    /\ c_path' = path
    /\ c_regex' = sinatra_path_to_regex(PathStr(path))
    /\ c_str' = ""
    /\ c_match' = NoSplit
    /\ UNCHANGED not_compile

\* Router.sinatra_path_to_regex(pattern), of the pattern it returned before
compile_again ==
    /\ c_regex.t = "regex"
    /\ c_regex' = sinatra_path_to_regex(c_regex)
    /\ c_str' = ""
    /\ c_match' = NoSplit
    /\ UNCHANGED <<c_path, not_compile>>

\* the compiled pattern matched against a request path
match_path(str) ==
    /\ c_regex.t = "regex"
    /\ c_str' = str
    /\ c_match' = path_split([path |-> c_regex], str)
    /\ UNCHANGED <<c_path, c_regex, not_compile>>

(***************************************************************************)
(* GrowlerHTTPProtocol: one object per connection.  The transport calls    *)
(* connection_made, data_received and connection_lost; the responder       *)
(* reacts to the data it is fed by consuming it, by handing a parsed       *)
(* request to begin_application, or by raising.                            *)
(***************************************************************************)
NoError == [http |-> FALSE, code |-> 0, msg |-> "", text |-> ""]

\* growler.http.errors.HTTPError instances: a status code and its message
HTTPErrors ==
    {[http |-> TRUE, code |-> 403, msg |-> "Forbidden", text |-> ""],
     [http |-> TRUE, code |-> 404, msg |-> "Not Found", text |-> ""]}

\* the mark, in the texts of the model, of a lone surrogate (U+D800..U+DFFF):
\* a code point that a Python str can hold and that UTF-8 cannot encode
LoneSurrogate == "^"

\* exceptions that are no HTTPError; text is str(error)
OtherErrors ==
    {[http |-> FALSE, code |-> 0, msg |-> "", text |-> ""],
     [http |-> FALSE, code |-> 0, msg |-> "", text |-> "boom"],
     [http |-> FALSE, code |-> 0, msg |-> "", text |-> "bad" \o LoneSurrogate]}

\* str.encode(): the UTF-8 bytes of the text (the text itself, its characters
\* being ASCII), or the UnicodeEncodeError a lone surrogate raises
encode(text) ==
    IF \A i \in 1..Len(text) : Ch(text, i) # LoneSurrogate
    THEN [ok |-> TRUE, bytes |-> text]
    ELSE [ok |-> FALSE, bytes |-> ""]

\* what a responder's on_data does with the data
Reactions ==
    {[kind |-> "consume", error |-> NoError],
     [kind |-> "begin_application", error |-> NoError]}
        \cup [kind : {"raise"}, error : HTTPErrors \cup OtherErrors]

\* HTTPResponse.get_current_time(): the date header's value
CurrentTime == "Sun, 01 Nov 2026 09:00:00 GMT"

DigitStr(d) ==
    CASE d = 0 -> "0" [] d = 1 -> "1" [] d = 2 -> "2" [] d = 3 -> "3"
      [] d = 4 -> "4" [] d = 5 -> "5" [] d = 6 -> "6" [] d = 7 -> "7"
      [] d = 8 -> "8" [] d = 9 -> "9"

\* "{}".format(n) of a non-negative int
RECURSIVE IntStr(_)
IntStr(n) ==
    IF n < 10 THEN DigitStr(n) ELSE IntStr(n \div 10) \o DigitStr(n % 10)

\* the html page of handle_error
error_page(err_code, err_msg, err_info) ==
    "<html>" \o "<head></head>" \o "<body><h1>HTTP Error : "
        \o IntStr(err_code) \o " " \o err_msg \o "</h1><p>" \o err_info
        \o "</p></body>" \o "</html>\n"

\* the response of handle_error: status line, headers, blank line, page
error_message(err_code, err_msg, err_info) ==
    LET err_str == error_page(err_code, err_msg, err_info)
    IN  "HTTP/1.1 " \o IntStr(err_code) \o " " \o err_msg \o "\r\n"
            \o "Content-Type: text/html; charset=UTF-8" \o "\r\n"
            \o "Content-Length: " \o IntStr(Len(encode(err_str).bytes)) \o "\r\n"
            \o "Date: " \o CurrentTime \o "\r\n"
            \o "" \o "\r\n"
            \o err_str

\* handle_error giving every error the 500 status
error_response_always_500(error) ==
    error_message(500, "Server Error", error.text)

\* handle_error leaving the error's text out of the page
error_response_no_info(error) ==
    IF error.http THEN error_message(error.code, error.msg, "")
    ELSE error_message(500, "Server Error", "")

\* GrowlerHTTPProtocol.handle_error: the bytes it writes for the error
error_response(error) ==
    IF error.http THEN error_message(error.code, error.msg, "")
    ELSE error_message(500, "Server Error", error.text)

\* handle_error(error) raises: err_str.encode() and response.encode() raise
\* UnicodeEncodeError when the page cannot be encoded
handle_error_raises(error) ==
    ~encode(error_page(IF error.http THEN error.code ELSE 500,
                       IF error.http THEN error.msg ELSE "Server Error",
                       IF error.http THEN "" ELSE error.text)).ok

\* handle_error giving the connection a new responder after its response
handle_error_new_responder(error) ==
    /\ stderr' = IF error.http THEN stderr ELSE stderr + 1
    /\ writes' = IF handle_error_raises(error) THEN writes
                 ELSE Append(writes, encode(error_response(error)).bytes)
    /\ responders' = Append(responders, "error_responder")
    /\ UNCHANGED <<conn, transport>>

\* GrowlerHTTPProtocol.handle_error(error): a trace on stderr for an error
\* that is no HTTPError, then one write to the transport of the encoded
\* response; nothing is written when the encoding raises.  It uses self
\* only in self.transport.write: the transport is neither closed nor
\* replaced, and the state and the responders are not assigned
handle_error(error) ==
    /\ stderr' = IF error.http THEN stderr ELSE stderr + 1
    /\ writes' = IF handle_error_raises(error) THEN writes
                 ELSE Append(writes, encode(error_response(error)).bytes)
    /\ UNCHANGED <<conn, transport, responders>>

\* begin_application running the application's coroutine to its end before
\* it returns
begin_application_blocking(rq, rs) ==
    tasks' = Append(tasks, [req |-> rq, res |-> rs, finished |-> TRUE])

\* GrowlerHTTPProtocol.begin_application(req, res): the application's
\* handle_client_request(req, res) is called once, and the coroutine it
\* returns is given to create_task; the task has not run when this returns
begin_application(rq, rs) ==
    tasks' = Append(tasks, [req |-> rq, res |-> rs, finished |-> FALSE])

\* the request and the response the responder makes of its n-th request
RequestOf(n) == <<"req", n>>

ResponseOf(n) == <<"res", n>>

Outcome(op, raised, reaction) ==
    [op |-> op, before |-> conn, raised |-> raised, reaction |-> reaction,
     nwrites |-> Len(writes), nfed |-> Len(fed), ntasks |-> Len(tasks)]

NoReaction == [kind |-> "none", error |-> NoError]

\* connection_made accepting a connection in any state
connection_made_again(t) ==
    /\ events < MaxEvents
    /\ events' = events + 1
    /\ transport' = t
    /\ responders' = <<"responder">>
    /\ conn' = "Connected"
    /\ connects' = connects + 1
    /\ p_ret' = Outcome("connection_made", FALSE, NoReaction)
    /\ UNCHANGED <<fed, writes, stderr, tasks, not_proto>>

\* GrowlerProtocol.connection_made(transport): records the transport, makes
\* the first responder and becomes Connected; raises unless Unconnected
connection_made(t) ==
    /\ events < MaxEvents
    /\ events' = events + 1
    /\ IF conn = "Unconnected"
       THEN /\ transport' = t
            /\ responders' = <<"responder">>
            /\ conn' = "Connected"
            /\ connects' = connects + 1
            /\ p_ret' = Outcome("connection_made", FALSE, NoReaction)
       ELSE /\ p_ret' = Outcome("connection_made", TRUE, NoReaction)
            /\ UNCHANGED <<transport, responders, conn, connects>>
    /\ UNCHANGED <<fed, writes, stderr, tasks, not_proto>>

\* GrowlerProtocol.data_received(data): the current responder is fed the
\* data, and what it raises goes to handle_error, in the except clause, so
\* that what handle_error raises leaves data_received; raises unless Connected
data_received(data, reaction) ==
    /\ events < MaxEvents
    /\ events' = events + 1
    /\ IF conn = "Connected"
       THEN /\ fed' = Append(fed, [responder |-> responders[Len(responders)],
                                   data |-> data])
            /\ IF reaction.kind = "raise"
               THEN /\ handle_error(reaction.error)
                    /\ p_ret' = Outcome("data_received",
                                    handle_error_raises(reaction.error),
                                    reaction)
                    /\ UNCHANGED tasks
               ELSE IF reaction.kind = "begin_application"
               THEN /\ begin_application(RequestOf(Len(tasks) + 1),
                                         ResponseOf(Len(tasks) + 1))
                    /\ p_ret' = Outcome("data_received", FALSE, reaction)
                    /\ UNCHANGED <<writes, stderr, conn, transport,
                                   responders>>
               ELSE /\ p_ret' = Outcome("data_received", FALSE, reaction)
                    /\ UNCHANGED <<writes, stderr, tasks, conn, transport,
                                   responders>>
       ELSE /\ p_ret' = Outcome("data_received", TRUE, NoReaction)
            /\ UNCHANGED <<fed, writes, stderr, tasks, conn, transport,
                           responders>>
    /\ UNCHANGED <<connects, not_proto>>

\* connection_lost making a Closed protocol ready for a new connection
connection_lost_reopens ==
    /\ events < MaxEvents
    /\ events' = events + 1
    /\ conn' = IF conn = "Closed" THEN "Unconnected" ELSE "Closed"
    /\ p_ret' = Outcome("connection_lost", FALSE, NoReaction)
    /\ UNCHANGED <<transport, responders, fed, writes, stderr, tasks,
                   connects, not_proto>>

\* GrowlerProtocol.connection_lost(exc): becomes Closed, and stays Closed
connection_lost ==
    /\ events < MaxEvents
    /\ events' = events + 1
    /\ conn' = "Closed"
    /\ p_ret' = Outcome("connection_lost", FALSE, NoReaction)
    /\ UNCHANGED <<transport, responders, fed, writes, stderr, tasks,
                   connects, not_proto>>

\* the event loop runs a scheduled task to its end
task_finishes(i) ==
    /\ ~tasks[i].finished
    /\ tasks' = [tasks EXCEPT ![i].finished = TRUE]
    /\ UNCHANGED <<conn, transport, responders, fed, writes, stderr,
                   connects, events, p_ret, not_proto>>

(***************************************************************************)
(* One connection with pipelined requests, statement by statement.  The    *)
(* event loop has one thread: it calls data_received for a chunk only when *)
(* no callback is running, and a callback gives the thread back only by    *)
(* returning or by awaiting.  A frame is a callback begun and not          *)
(* returned: the number k of its chunk, the statements it has left, and    *)
(* whether it runs or is suspended in an await.  The trace records, in     *)
(* order: the arrival of chunk k, the end of the parsing of request n, the *)
(* making of its body pair, its handing to the application, the delivery   *)
(* of its body, the writing of an error response and the return of the     *)
(* callback of chunk k.                                                    *)
(***************************************************************************)
\* what a chunk holds: the whole head of a request without a body, the
\* whole head of a request with a body, or other bytes
Chunks == {"GET head", "POST head", "bytes"}

\* begin_application awaiting the task it made
begin_application_stmts_awaiting == <<"create_task", "await_task">>

\* the statements of begin_application after the call of
\* handle_client_request: create_task(coro), and no await
begin_application_stmts == <<"create_task">>

\* the statements of handle_error: the response is built and written with
\* transport.write, and no await
handle_error_stmts == <<"write">>

\* the responder's on_data(chunk): bytes that arrive while a body is awaited
\* are the body and are sent to the sender of its pair; a head ends the
\* parsing of the next request, which gets a body pair if it has a body and
\* is handed to begin_application; other bytes are no request and raise,
\* and data_received passes what is raised to handle_error
on_data_stmts(chunk) ==
    IF awaiting_body # 0 THEN <<"send_body">>
    ELSE IF chunk = "GET head" THEN <<"parse">> \o begin_application_stmts
    ELSE IF chunk = "POST head"
    THEN <<"parse", "body_storage_pair">> \o begin_application_stmts
    ELSE <<"raise">> \o handle_error_stmts

\* how many events of the kind the trace holds
Count(kind) == Cardinality({i \in 1..Len(trace) : trace[i][1] = kind})

\* no callback holds the loop's thread: a callback suspended in an await
\* has given it back
ThreadFree == \A i \in 1..Len(frames) : frames[i].state = "suspended"

\* the exception a responder raises on bytes that are no request
BadRequest == [http |-> FALSE, code |-> 0, msg |-> "", text |-> "boom"]

\* the event loop calls data_received(chunk): the responder is fed
loop_calls_data_received(chunk) ==
    /\ conn = "Connected"
    /\ ThreadFree
    /\ Count("arrived") < MaxChunks
    /\ LET k == Count("arrived") + 1
       IN  /\ frames' = Append(frames, [k |-> k, todo |-> on_data_stmts(chunk),
                                        state |-> "running", task |-> 0])
           /\ trace' = Append(trace, <<"arrived", k>>)
    /\ fed' = Append(fed, [responder |-> responders[Len(responders)],
                           data |-> chunk])
    /\ UNCHANGED <<conn, transport, responders, writes, stderr, tasks,
                   connects, events, p_ret, awaiting_body, not_pipe>>

\* the frames after frame i has run its first statement: it returns when
\* that was its last
AfterStatement(i, state, task) ==
    IF Len(frames[i].todo) = 1 /\ state = "running"
    THEN SelectSeq(frames, LAMBDA fr : fr.k # frames[i].k)
    ELSE [frames EXCEPT ![i] = [k |-> frames[i].k, todo |-> Tail(frames[i].todo),
                                state |-> state, task |-> task]]

\* the trace after frame i has run its first statement, ev being what the
\* statement did (<<>> for nothing the trace records)
TraceAfter(i, ev, state) ==
    trace \o ev \o (IF Len(frames[i].todo) = 1 /\ state = "running"
                    THEN <<<<"returned", frames[i].k>>>> ELSE <<>>)

\* the running callback executes its next statement
callback_step(i) ==
    /\ frames[i].state = "running"
    /\ LET stmt == Head(frames[i].todo)
           n    == Count("parsed")
       IN  CASE stmt = "parse" ->
                  /\ frames' = AfterStatement(i, "running", 0)
                  /\ trace' = TraceAfter(i, <<<<"parsed", n + 1>>>>, "running")
                  /\ UNCHANGED <<tasks, writes, stderr, awaiting_body>>
             [] stmt = "body_storage_pair" ->
                  /\ frames' = AfterStatement(i, "running", 0)
                  /\ trace' = TraceAfter(i, <<<<"pair", n>>>>, "running")
                  /\ awaiting_body' = n
                  /\ UNCHANGED <<tasks, writes, stderr>>
             [] stmt = "create_task" ->
                  /\ begin_application(RequestOf(n), ResponseOf(n))
                  /\ frames' = AfterStatement(i, "running", Len(tasks) + 1)
                  /\ trace' = TraceAfter(i, <<<<"handed", n>>>>, "running")
                  /\ UNCHANGED <<writes, stderr, awaiting_body>>
             [] stmt = "await_task" ->
                  /\ frames' = AfterStatement(i, "suspended", frames[i].task)
                  /\ trace' = TraceAfter(i, <<>>, "suspended")
                  /\ UNCHANGED <<tasks, writes, stderr, awaiting_body>>
             [] stmt = "send_body" ->
                  /\ frames' = AfterStatement(i, "running", 0)
                  /\ trace' = TraceAfter(i, <<<<"body", awaiting_body>>>>,
                                         "running")
                  /\ awaiting_body' = 0
                  /\ UNCHANGED <<tasks, writes, stderr>>
             [] stmt = "raise" ->
                  /\ frames' = AfterStatement(i, "running", 0)
                  /\ trace' = TraceAfter(i, <<>>, "running")
                  /\ UNCHANGED <<tasks, writes, stderr, awaiting_body>>
             [] stmt = "write" ->
                  /\ handle_error(BadRequest)
                  /\ frames' = AfterStatement(i, "running", 0)
                  /\ trace' = TraceAfter(i, <<<<"error", frames[i].k>>>>,
                                         "running")
                  /\ UNCHANGED <<tasks, awaiting_body>>
    /\ UNCHANGED <<conn, transport, responders, fed, connects, events, p_ret,
                   not_pipe>>

(***************************************************************************)
(* GrowlerHTTPProtocol.body_storage_pair: a Future and the send_body        *)
(* generator that sets its result.  The generator stands at "start" (not    *)
(* started), "first_yield" (at `data = yield`), "second_yield" (at the      *)
(* last yield) or "finished" (it returned or raised).                       *)
(***************************************************************************)
BodyValues == {"X", "Y"}

NoFuture == [state |-> "unmade", result |-> None]

PendingFuture == [state |-> "pending", result |-> None]

BodyOutcome(op, raised, val) == [op |-> op, raised |-> raised, val |-> val]

\* body_storage_pair returning the sender without next(sender)
body_storage_pair_unprimed ==
    /\ future = NoFuture
    /\ future' = PendingFuture
    /\ sender' = "start"
    /\ b_ret' = BodyOutcome("body_storage_pair", "", None)
    /\ UNCHANGED <<sent, resolutions, reader, not_body>>

\* GrowlerHTTPProtocol.body_storage_pair(): the future is made, the generator
\* is made and advanced to its first yield, and both are returned
body_storage_pair ==
    /\ future = NoFuture
    /\ future' = PendingFuture
    /\ sender' = "first_yield"
    /\ b_ret' = BodyOutcome("body_storage_pair", "", None)
    /\ UNCHANGED <<sent, resolutions, reader, not_body>>

\* send_body as a loop that stores every value it is sent
sender_send_overwrite(data) ==
    /\ future # NoFuture
    /\ Len(sent) < MaxSends
    /\ sent' = Append(sent, data)
    /\ future' = [state |-> "done", result |-> data]
    /\ resolutions' = resolutions + 1
    /\ sender' = "first_yield"
    /\ b_ret' = BodyOutcome("send", "", None)
    /\ UNCHANGED <<reader, not_body>>

\* sender.send(data), next(sender) being send(None): the generator runs from
\* where it stands to its next yield, through future.set_result(data)
sender_send(data) ==
    /\ future # NoFuture
    /\ Len(sent) < MaxSends
    /\ sent' = Append(sent, data)
    /\ CASE sender = "start" ->
              \* a value cannot be sent to a generator that has not started
              IF data # None
              THEN /\ b_ret' = BodyOutcome("send", "TypeError", None)
                   /\ UNCHANGED <<future, sender, resolutions>>
              ELSE /\ sender' = "first_yield"
                   /\ b_ret' = BodyOutcome("send", "", None)
                   /\ UNCHANGED <<future, resolutions>>
         [] sender = "first_yield" ->
              \* data = yield; future.set_result(data); yield
              IF future.state = "pending"
              THEN /\ future' = [state |-> "done", result |-> data]
                   /\ resolutions' = resolutions + 1
                   /\ sender' = "second_yield"
                   /\ b_ret' = BodyOutcome("send", "", None)
              ELSE /\ sender' = "finished"
                   /\ b_ret' = BodyOutcome("send", "InvalidStateError", None)
                   /\ UNCHANGED <<future, resolutions>>
         [] sender = "second_yield" ->
              \* the generator returns
              /\ sender' = "finished"
              /\ b_ret' = BodyOutcome("send", "StopIteration", None)
              /\ UNCHANGED <<future, resolutions>>
         [] sender = "finished" ->
              /\ b_ret' = BodyOutcome("send", "StopIteration", None)
              /\ UNCHANGED <<future, sender, resolutions>>
    /\ UNCHANGED <<reader, not_body>>

\* `await future` suspending the caller whether or not the future is done
await_future_always_suspends ==
    /\ future # NoFuture
    /\ reader.state = "idle"
    /\ reader' = [state |-> "waiting", val |-> None, suspended |-> TRUE]
    /\ b_ret' = BodyOutcome("await", "", None)
    /\ UNCHANGED <<future, sender, sent, resolutions, not_body>>

\* `await future` by a caller: it resumes at once with the result of a done
\* future, and is suspended on a pending one
await_future ==
    /\ future # NoFuture
    /\ reader.state = "idle"
    /\ reader' = IF future.state = "done"
                 THEN [state |-> "resumed", val |-> future.result,
                       suspended |-> FALSE]
                 ELSE [state |-> "waiting", val |-> None, suspended |-> TRUE]
    /\ b_ret' = BodyOutcome("await", "", None)
    /\ UNCHANGED <<future, sender, sent, resolutions, not_body>>

\* the event loop resumes the caller suspended on the future, now done
reader_resumes ==
    /\ reader.state = "waiting"
    /\ future.state = "done"
    /\ reader' = [reader EXCEPT !.state = "resumed", !.val = future.result]
    /\ UNCHANGED <<future, sender, sent, resolutions, b_ret, not_body>>

Init ==
    /\ mw_list = <<>>
    /\ deco = NoDeco
    /\ ret = Returned("__init__", None)
    /\ c_path = ""
    /\ c_regex = NoRegex
    /\ c_str = ""
    /\ c_match = NoSplit
    /\ conn = "Unconnected"
    /\ transport = None
    /\ responders = <<>>
    /\ fed = <<>>
    /\ writes = <<>>
    /\ stderr = 0
    /\ tasks = <<>>
    /\ connects = 0
    /\ events = 0
    /\ p_ret = [op |-> "__init__", before |-> "Unconnected", raised |-> FALSE,
                reaction |-> NoReaction, nwrites |-> 0, nfed |-> 0,
                ntasks |-> 0]
    /\ future = NoFuture
    /\ sender = "start"
    /\ sent = <<>>
    /\ resolutions = 0
    /\ reader = [state |-> "idle", val |-> None, suspended |-> FALSE]
    /\ b_ret = BodyOutcome("__init__", "", None)
    /\ klass = <<>>
    /\ frames = <<>>
    /\ trace = <<>>
    /\ awaiting_body = 0

Next ==
    \/ \E p \in LeafPaths, m \in Leaves : all(PathStr(p), m)
    \/ \E p \in LeafPaths, m \in Leaves : get(PathStr(p), m)
    \/ \E p \in LeafPaths, m \in Leaves : post(PathStr(p), m)
    \/ \E p \in LeafPaths, m \in Leaves : put(PathStr(p), m)
    \/ \E p \in LeafPaths, m \in Leaves : delete(PathStr(p), m)
    \/ \E m \in Handlers, p \in MountPaths \cup {None} : use(m, p)
    \/ \E p \in MountPaths, r \in Routers : add_router(PathStr(p), r)
    \/ \E r \in Requests : match_routes(r)

Spec == Init /\ [][Next]_vars

\* registration alone: the verb methods with and without a handler, the
\* decorators they return, middleware of every kind, and subrouters
NextRegister ==
    \/ \E p \in DecoPaths, m \in Leaves \cup {None} : all(PathStr(p), m)
    \/ \E p \in DecoPaths, m \in Leaves \cup {None} : get(PathStr(p), m)
    \/ \E p \in DecoPaths, m \in Leaves \cup {None} : post(PathStr(p), m)
    \/ \E p \in DecoPaths, m \in Leaves \cup {None} : put(PathStr(p), m)
    \/ \E p \in DecoPaths, m \in Leaves \cup {None} : delete(PathStr(p), m)
    \/ \E func \in DecoFuncs : decorator(func)
    \/ \E m \in Handlers \cup Chains, p \in MountPaths : use(m, p)
    \/ subrouters

SpecRegister == Init /\ [][NextRegister]_vars

\* a class body is written, and a router is made of it
NextClass ==
    \/ \E a \in Attributes : define_attribute(a)
    \/ routerify
    \/ build_router

SpecClass == Init /\ [][NextClass]_vars

NextCompile ==
    \/ \E p \in PathsOver(SinatraSegs) : compile_path(p)
    \/ compile_again
    \/ \E r \in PathsOver(RequestSegs) : match_path(r)

SpecCompile == Init /\ [][NextCompile]_vars

NextProto ==
    \/ connection_made("transport")
    \/ \E r \in Reactions : data_received("data", r)
    \/ connection_lost
    \/ \E i \in 1..Len(tasks) : task_finishes(i)

SpecProto == Init /\ [][NextProto]_vars

\* one connection, its callbacks run statement by statement
NextPipeline ==
    \/ /\ conn = "Unconnected"
       /\ connection_made("transport")
    \/ \E chunk \in Chunks : loop_calls_data_received(chunk)
    \/ \E i \in 1..Len(frames) : callback_step(i)
    \/ \E i \in 1..Len(tasks) : task_finishes(i)

SpecPipeline == Init /\ [][NextPipeline]_vars

NextBody ==
    \/ body_storage_pair
    \/ \E v \in BodyValues \cup {None} : sender_send(v)
    \/ await_future
    \/ reader_resumes

SpecBody == Init /\ [][NextBody]_vars

\* the pair under a running event loop: set_result schedules the wake-up of
\* the caller suspended on the future, and the loop runs what is scheduled
SpecBodyLoop == Init /\ [][NextBody]_vars /\ WF_vars(reader_resumes)

(***************************************************************************)
(* The properties checked.                                                 *)
(***************************************************************************)
\* the last call was match_routes, so ret.out is what it yielded for ret.req
MatchedAfter == ret.op = "match_routes"

\* entry i's pattern against the path of the matched request
SplitOf(i) == path_split(mw_list[i], ret.req.path)

\* entry i takes the method of the matched request
TakesMethod(i) == ret.req.method \in mw_list[i].mask

\* entry i is among the yielded
Yielded(i) == \E k \in 1..Len(ret.out) : ret.out[k].idx = i

\* the positions in mw_list of the yielded entries, in the order yielded
OutIdx == [k \in 1..Len(ret.out) |-> ret.out[k].idx]

Indices(n) == [i \in 1..n |-> i]

\* C1, as the claim states it: a match yields exactly the entries whose mask
\* includes the method and whose pattern matches a prefix of the path, in
\* registration order.
C1_PrefixMatchesYielded ==
    MatchedAfter =>
        OutIdx = SelectSeq(Indices(Len(mw_list)),
                     LAMBDA i : TakesMethod(i) /\ SplitOf(i).matching)

\* C1, amended: a match yields entries in registration order, each entry at
\* most once and never merged with another; every yielded entry has a mask
\* that includes the method and a pattern that matches a prefix of the path;
\* whether an entry is yielded depends on that entry and the request alone
\* (it is yielded exactly if a chain holding only it would yield it); and
\* the leaf entries yielded are exactly those whose mask includes the method
\* and whose pattern matches the path with nothing left over.
C1_MatchInRegistrationOrder ==
    MatchedAfter =>
        /\ \A k \in 1..Len(ret.out) :
              /\ OutIdx[k] \in 1..Len(mw_list)
              /\ ret.out[k].func = mw_list[OutIdx[k]].func
              /\ TakesMethod(OutIdx[k])
              /\ SplitOf(OutIdx[k]).matching
        /\ \A k \in 1..(Len(ret.out) - 1) : OutIdx[k] < OutIdx[k + 1]
        /\ \A i \in 1..Len(mw_list) :
              Yielded(i) <=>
                  Len(chain_call(<<mw_list[i]>>, 1,
                                 ret.req.method, ret.req.path)) = 1
        /\ \A i \in 1..Len(mw_list) :
              ~IsChain(mw_list[i].func) =>
                  (Yielded(i) <=> /\ TakesMethod(i)
                                  /\ SplitOf(i).matching
                                  /\ SplitOf(i).rest = "")

\* C1's case: a match that yielded two entries with different handlers
C1_Witness ==
    /\ MatchedAfter
    /\ Len(ret.out) = 2
    /\ ret.out[1].func # ret.out[2].func

\* C2, as the claim states it: a sub-router registered under the ALL mask
\* whose pattern matches a prefix of the path up to a segment boundary,
\* leaving a non-empty rest, is yielded together with that rest.
C2_SubrouterTakesRest ==
    MatchedAfter =>
        \A i \in 1..Len(mw_list) :
            ( /\ IsChain(mw_list[i].func)
              /\ mw_list[i].mask = HTTPMethod_ALL
              /\ SplitOf(i).matching
              /\ Ch(SplitOf(i).rest, 1) = "/" )
            => \E k \in 1..Len(ret.out) :
                   /\ ret.out[k].idx = i
                   /\ ret.out[k].rest = SplitOf(i).rest

\* C3: a leaf entry is yielded if and only if its mask includes the method,
\* its pattern matched, and nothing of the path is left over.
C3_LeafNeedsWholePath ==
    MatchedAfter =>
        \A i \in 1..Len(mw_list) :
            mw_list[i].func \in Leaves =>
                (Yielded(i) <=> /\ TakesMethod(i)
                                /\ SplitOf(i).matching
                                /\ SplitOf(i).rest = "")

\* C3's case: a leaf at /home, asked for /home/extra by a method it takes,
\* is not yielded
C3_Witness ==
    /\ MatchedAfter
    /\ ret.req.path = "/home/extra"
    /\ \E i \in 1..Len(mw_list) :
          /\ mw_list[i].func \in Leaves
          /\ mw_list[i].path.v = "/home"
          /\ TakesMethod(i)
          /\ ~Yielded(i)

\* C4: a sub-router whose pattern matches a prefix of the path that ends
\* inside a segment (the rest is not empty and does not start with '/') is
\* not yielded.
C4_NoMatchInsideSegment ==
    MatchedAfter =>
        \A i \in 1..Len(mw_list) :
            ( /\ IsChain(mw_list[i].func)
              /\ SplitOf(i).matching
              /\ SplitOf(i).rest # ""
              /\ Ch(SplitOf(i).rest, 1) # "/" )
            => ~Yielded(i)

\* C4's case: a sub-router mounted at /blog and a match of /blogger
C4_Witness ==
    /\ MatchedAfter
    /\ ret.req.path = "/blogger"
    /\ \E i \in 1..Len(mw_list) :
          /\ IsChain(mw_list[i].func)
          /\ mw_list[i].path.v = "/blog"
          /\ ~Yielded(i)

\* C14: a verb method called without a handler registers nothing and returns
\* a decorator holding the verb's mask and the path; the decorator applied
\* to a function appends exactly one entry, of that mask, that path
\* (compiled) and that function, and returns the function it was given.
C14_DecoratorRegisters ==
    [][ /\ (ret'.op = "_add_route" /\ ret'.val = "decorator") =>
              /\ mw_list' = mw_list
              /\ deco'.set
        /\ \A p \in DecoPaths :
              /\ all(PathStr(p), None) => deco'.mask = HTTPMethod_ALL
              /\ get(PathStr(p), None) => deco'.mask = HTTPMethod_GET
              /\ post(PathStr(p), None) => deco'.mask = HTTPMethod_POST
              /\ put(PathStr(p), None) => deco'.mask = HTTPMethod_PUT
              /\ delete(PathStr(p), None) => deco'.mask = HTTPMethod_DELETE
              /\ (\E mask \in SUBSET Methods :
                      _add_route(mask, PathStr(p), None))
                    => deco'.path = PathStr(p)
        /\ \A func \in DecoFuncs :
              decorator(func) =>
                  /\ ret' = Returned("decorator", func)
                  /\ mw_list' = Append(mw_list,
                         [mask |-> deco.mask,
                          path |-> sinatra_path_to_regex(deco.path),
                          func |-> func])
        /\ ret'.op = "decorator" =>
              /\ Len(mw_list') = Len(mw_list) + 1
              /\ mw_list'[Len(mw_list')].func = ret'.val
              /\ SubSeq(mw_list', 1, Len(mw_list)) = mw_list
      ]_vars

\* C14's case: post(path) without a handler gave a decorator, and the
\* decorator applied to g registered g under the POST mask and returned g
C14_Witness ==
    /\ ret = Returned("decorator", "g")
    /\ deco.mask = HTTPMethod_POST
    /\ Len(mw_list) >= 1
    /\ mw_list[Len(mw_list)] =
           [mask |-> HTTPMethod_POST,
            path |-> sinatra_path_to_regex(PathStr("/users/:id")),
            func |-> "g"]

\* the entry that registering func under mask at path makes
EntryOf(mask, path, func) ==
    [mask |-> mask, path |-> sinatra_path_to_regex(path), func |-> func]

\* C15: every step leaves the entries registered so far in place and
\* unchanged, adding at most one entry after them; and each registration
\* with a handler (all, get, post, put, delete, use, add_router) adds exactly
\* one entry, at the end: its mask, its path compiled, its handler.
C15_AppendOnly ==
    [][ /\ \/ mw_list' = mw_list
           \/ /\ Len(mw_list') = Len(mw_list) + 1
              /\ SubSeq(mw_list', 1, Len(mw_list)) = mw_list
        /\ \A p \in LeafPaths, m \in Leaves :
              /\ all(PathStr(p), m) =>
                    mw_list' = Append(mw_list,
                                   EntryOf(HTTPMethod_ALL, PathStr(p), m))
              /\ get(PathStr(p), m) =>
                    mw_list' = Append(mw_list,
                                   EntryOf(HTTPMethod_GET, PathStr(p), m))
              /\ post(PathStr(p), m) =>
                    mw_list' = Append(mw_list,
                                   EntryOf(HTTPMethod_POST, PathStr(p), m))
              /\ put(PathStr(p), m) =>
                    mw_list' = Append(mw_list,
                                   EntryOf(HTTPMethod_PUT, PathStr(p), m))
              /\ delete(PathStr(p), m) =>
                    mw_list' = Append(mw_list,
                                   EntryOf(HTTPMethod_DELETE, PathStr(p), m))
        /\ \A p \in MountPaths, m \in Handlers :
              /\ use(m, p) =>
                    mw_list' = Append(mw_list,
                                   EntryOf(HTTPMethod_ALL, PathStr(p), m))
              /\ use(m, None) =>
                    mw_list' = Append(mw_list,
                                   EntryOf(HTTPMethod_ALL, ROOT_PATTERN, m))
        /\ \A p \in MountPaths, r \in Routers :
              add_router(PathStr(p), r) =>
                    mw_list' = Append(mw_list,
                                   EntryOf(HTTPMethod_ALL, PathStr(p), r))
      ]_vars

\* C15's case: a second registration, by use, after a first by a verb
\* method, whose entry is still the first
C15_Witness ==
    /\ ret = Returned("use", "self")
    /\ Len(mw_list) = 2
    /\ mw_list[1].func \in Leaves
    /\ mw_list[1].mask = HTTPMethod_GET
    /\ mw_list[2].func \in Routers

\* the last call read the subrouters property, so ret.out is what it yielded
SubroutersRead == ret.op = "subrouters"

\* C16, as the claim states it: subrouters yields, in registration order,
\* exactly the entries whose handler is a chain instance, any MiddlewareChain
\* and not only a Router.
C16_EveryChainYielded ==
    SubroutersRead =>
        OutIdx = SelectSeq(Indices(Len(mw_list)),
                     LAMBDA i : IsChain(mw_list[i].func))

\* C16, amended: subrouters yields, in registration order, exactly the
\* entries whose handler is a Router instance; an entry whose handler is a
\* leaf callable, or a MiddlewareChain that is not a Router, is not yielded.
C16_EveryRouterYielded ==
    SubroutersRead =>
        /\ OutIdx = SelectSeq(Indices(Len(mw_list)),
                        LAMBDA i : IsRouter(mw_list[i].func))
        /\ \A k \in 1..Len(ret.out) :
              ret.out[k].func = mw_list[OutIdx[k]].func
        /\ \A i \in 1..Len(mw_list) :
              (mw_list[i].func \in Leaves \cup DecoFuncs \cup Chains)
                  => ~Yielded(i)

\* C16's case: a Router and a plain MiddlewareChain are both registered,
\* and subrouters yielded the Router's entry alone
C16_Witness ==
    /\ SubroutersRead
    /\ Len(mw_list) = 2
    /\ mw_list[1].func \in Chains
    /\ mw_list[2].func \in Routers
    /\ OutIdx = <<2>>

\* entry i was registered by use without a path
UsedWithoutPath(i) ==
    /\ mw_list[i].path = ROOT_PATTERN
    /\ mw_list[i].func \in Handlers

\* C17: an entry registered by use(middleware) without a path has the ALL
\* mask and the ROOT_PATTERN, and every match yields it, whatever the
\* request's method and path, with no parameters and nothing left over.
C17_RootMiddlewareAlwaysYielded ==
    /\ \A i \in 1..Len(mw_list) :
          UsedWithoutPath(i) => mw_list[i].mask = HTTPMethod_ALL
    /\ MatchedAfter =>
          \A i \in 1..Len(mw_list) :
              UsedWithoutPath(i) =>
                  \E k \in 1..Len(ret.out) :
                      /\ ret.out[k].idx = i
                      /\ ret.out[k].func = mw_list[i].func
                      /\ ret.out[k].rest = ""

\* C17's case: middleware used without a path, and a match of POST
\* /blog/list, which no other registered path takes whole, yielded it
C17_Witness ==
    /\ MatchedAfter
    /\ ret.req = [method |-> "POST", path |-> "/blog/list"]
    /\ Len(mw_list) = 2
    /\ UsedWithoutPath(2)
    /\ ~UsedWithoutPath(1)
    /\ OutIdx = <<2>>

\* a segment of the form :name, name an identifier
IsParamSeg(seg) == Ch(seg, 1) = ":" /\ IsIdentifier(StrFrom(seg, 2))

IsWord(str) == Len(str) > 0 /\ \A i \in 1..Len(str) : Ch(str, i) \in WordChars

\* the request path has the sinatra path's segments: equal where the segment
\* is a literal, a non-empty word where it is a :name, the names all different
SameShape(path, str) ==
    LET ps == Split(path)
        rs == Split(str)
    IN  /\ Len(ps) = Len(rs)
        /\ \A i \in 1..Len(ps) :
              IF IsParamSeg(ps[i]) THEN IsWord(rs[i]) ELSE ps[i] = rs[i]
        /\ \A i, j \in 1..Len(ps) :
              (IsParamSeg(ps[i]) /\ i # j) => ps[i] # ps[j]

\* C5, as the claim states it: for a sinatra path with a :name segment, a
\* request path of its shape matches the compiled pattern, and each :name is
\* bound to the request's segment at its place.
C5_ParamsCaptured ==
    ( /\ c_str # ""
      /\ SameShape(c_path, c_str)
      /\ \E i \in 1..Len(Split(c_path)) : IsParamSeg(Split(c_path)[i]) ) =>
        /\ c_match.matching
        /\ LET ps == Split(c_path)
               rs == Split(c_str)
           IN  \A i \in 1..Len(ps) :
                   IsParamSeg(ps[i]) =>
                       GroupOf(c_match.params, StrFrom(ps[i], 2)) = rs[i]

EndsWith(str, suffix) ==
    /\ Len(str) >= Len(suffix)
    /\ Slice(str, Len(str) - Len(suffix) + 1, Len(str)) = suffix

\* C6: the protocol becomes Connected at most once; connection_made on a
\* Connected protocol raises, data_received on an Unconnected one raises,
\* and in neither case is a responder fed.
C6_ConnectedOnce ==
    /\ connects <= 1
    /\ (p_ret.op = "connection_made" /\ p_ret.before = "Connected") =>
           /\ p_ret.raised
           /\ conn = "Connected"
           /\ Len(fed) = p_ret.nfed
    /\ (p_ret.op = "data_received" /\ p_ret.before = "Unconnected") =>
           /\ p_ret.raised
           /\ conn = "Unconnected"
           /\ Len(fed) = p_ret.nfed

\* C6's case: connection_made was called on a Connected protocol
C6_Witness ==
    /\ p_ret.op = "connection_made"
    /\ p_ret.before = "Connected"
    /\ p_ret.raised

\* the last callback was a data_received whose responder raised, and which
\* returned: handle_error ran to its end
RaisedInData ==
    /\ p_ret.op = "data_received"
    /\ ~p_ret.raised
    /\ p_ret.reaction.kind = "raise"

ExpectedStatusLine(error) ==
    CASE error.code = 403 /\ error.msg = "Forbidden" ->
             "HTTP/1.1 403 Forbidden\r\n"
      [] error.code = 404 /\ error.msg = "Not Found" ->
             "HTTP/1.1 404 Not Found\r\n"
      [] OTHER -> "?"

\* C8: when the responder raises an HTTPError of code c and message m, what
\* is written starts with the status line 'HTTP/1.1 c m' and the detail of
\* its body is empty.
C8_HTTPErrorVerbatim ==
    (RaisedInData /\ p_ret.reaction.error.http) =>
        /\ Len(writes) = p_ret.nwrites + 1
        /\ StartsWithAt(writes[Len(writes)], 1,
               ExpectedStatusLine(p_ret.reaction.error))
        /\ EndsWith(writes[Len(writes)], "<p></p></body></html>\n")

\* C8's case: the responder raised HTTPError 403 Forbidden
C8_Witness ==
    /\ RaisedInData
    /\ p_ret.reaction.error.http
    /\ p_ret.reaction.error.code = 403
    /\ StartsWithAt(writes[Len(writes)], 1, "HTTP/1.1 403 Forbidden")

\* the last callback was a data_received on a Connected protocol
DataInConnected ==
    /\ p_ret.op = "data_received"
    /\ p_ret.before = "Connected"

\* C11, as the claim states it: data_received on a Connected protocol feeds
\* the data to the current responder and returns normally, whatever the
\* responder raised: the error went to handle_error, which wrote its
\* response, and neither the responder's exception nor a failure of
\* handle_error left data_received.
C11_NothingPropagated ==
    DataInConnected =>
        /\ Len(fed) = p_ret.nfed + 1
        /\ fed[Len(fed)] = [responder |-> responders[Len(responders)],
                            data |-> "data"]
        /\ ~p_ret.raised
        /\ p_ret.reaction.kind = "raise" => Len(writes) = p_ret.nwrites + 1

\* this step is a data_received whose responder handed over a parsed request
BeginsApplication ==
    /\ events' = events + 1
    /\ p_ret'.op = "data_received"
    /\ p_ret'.reaction.kind = "begin_application"

\* C12: a data_received whose responder calls begin_application(req, res)
\* adds exactly one task, the application's handle_client_request called
\* with that req and that res, leaves the earlier tasks as they are, and
\* returns with the task not yet run; and a data_received on a Connected
\* protocol feeds its responder whether or not earlier tasks are pending.
C12_ApplicationScheduledOnce ==
    [][ /\ BeginsApplication =>
              /\ ~p_ret'.raised
              /\ tasks' = Append(tasks,
                             [req      |-> RequestOf(Len(tasks) + 1),
                              res      |-> ResponseOf(Len(tasks) + 1),
                              finished |-> FALSE])
        /\ ( /\ events' = events + 1
             /\ p_ret'.op = "data_received"
             /\ conn = "Connected" ) => Len(fed') = Len(fed) + 1
      ]_vars

\* C12's case: a second request was handed to the application while the
\* task of the first had not finished
C12_Witness ==
    /\ p_ret.op = "data_received"
    /\ p_ret.reaction.kind = "begin_application"
    /\ Len(tasks) = 2
    /\ ~tasks[1].finished
    /\ ~tasks[2].finished
    /\ Len(fed) >= 2

\* C13: from Closed every step leads to Closed: connection_made and
\* data_received raise there, no responder is fed, handle_error does not run
\* (nothing is written, nothing is traced), no task is scheduled, and a
\* connection_lost on a Closed protocol returns and changes nothing of the
\* connection.
C13_ClosedIsTerminal ==
    [][ conn = "Closed" =>
          /\ conn' = "Closed"
          /\ UNCHANGED <<transport, responders, fed, writes, stderr, connects>>
          /\ Len(tasks') = Len(tasks)
          /\ ( /\ events' = events + 1
               /\ p_ret'.op \in {"connection_made", "data_received"} )
                 => p_ret'.raised
          /\ (events' = events + 1 /\ p_ret'.op = "connection_lost")
                 => ~p_ret'.raised
      ]_vars

\* C13's case: data arrived on a Closed protocol that had been Connected,
\* and the protocol is still Closed
C13_Witness ==
    /\ p_ret.op = "data_received"
    /\ p_ret.before = "Closed"
    /\ p_ret.raised
    /\ connects = 1
    /\ conn = "Closed"

\* the segment of the pattern that the claim gives for a segment of the
\* path: a named group for a whole segment :name, the segment itself
\* otherwise
claimed_segment(segment) ==
    IF IsParamSeg(segment)
    THEN "(?P<" \o StrFrom(segment, 2) \o ">\\w+)"
    ELSE segment

\* C18, as the claim states it: the compiled pattern has a named group for
\* each whole segment :name and every other segment as it is written, a
\* segment holding ':name' after other characters or ':name' before further
\* non-word characters among them; and compiling a compiled pattern returns
\* that pattern.
C18_OnlyWholeSegments ==
    /\ c_path # "" =>
          LET segs == Split(c_path)
          IN  c_regex = re_compile(Join([i \in 1..Len(segs) |->
                                            claimed_segment(segs[i])]))
    /\ c_regex.t = "regex" => sinatra_path_to_regex(c_regex) = c_regex

\* the handlers registered on the router, in the order registered
RegisteredFuncs == [i \in 1..Len(mw_list) |-> mw_list[i].func]

\* the names of the route methods of the class body, in the order defined
RouteMethodsDefined ==
    LET routes == get_routing_attributes(klass, classdict_keys(klass))
    IN  [i \in 1..Len(routes) |-> routes[i].func]

\* C19, as the claim states it: the router that routerify builds for a
\* routerclass has the route methods of the class registered in the order
\* in which the class defines them.
C19_DefinitionOrder ==
    ret.op = "routerify" => RegisteredFuncs = RouteMethodsDefined

\* C20: should_skip_middleware is true exactly when the pattern did not
\* match or something of the path is left over, whatever the entry's handler
\* is; so of the entries that take the method, leaf or sub-chain alike, a
\* match yields exactly those whose pattern matched with nothing left over.
C20_SkipIgnoresHandler ==
    MatchedAfter =>
        \A i \in 1..Len(mw_list) :
            LET ps == SplitOf(i)
            IN  /\ \A h \in Handlers \cup Chains :
                      should_skip_middleware([mw_list[i] EXCEPT !.func = h],
                                             ps.matching, ps.rest)
                          <=> (~ps.matching \/ ps.rest # "")
                /\ TakesMethod(i) =>
                      (Yielded(i) <=> (ps.matching /\ ps.rest = ""))

\* C20's case: a leaf and a sub-router, both registered at /blog, and a
\* match of /blog/list: both patterns match leaving /list, both are skipped
C20_Witness ==
    /\ MatchedAfter
    /\ ret.req.path = "/blog/list"
    /\ Len(mw_list) = 2
    /\ mw_list[1].func \in Leaves
    /\ mw_list[2].func \in Routers
    /\ \A i \in 1..2 : SplitOf(i).matching /\ SplitOf(i).rest = "/list"
    /\ ret.out = <<>>

\* C9: once the sender of a pair from body_storage_pair has been sent a value
\* X, the future is done with X, its result was set exactly once, and a
\* caller awaiting it has X when it resumes.
C9_ConsumerGetsValue ==
    (future # NoFuture /\ Len(sent) >= 1) =>
        /\ future.state = "done"
        /\ future.result = sent[1]
        /\ resolutions = 1
        /\ reader.state = "resumed" => reader.val = sent[1]

\* C9's case: X was sent and the awaiting caller resumed with X
C9_Witness ==
    /\ sent = <<"X">>
    /\ reader.state = "resumed"
    /\ reader.val = "X"

\* C10: the future's result is set at most once and, once set, is the first
\* value sent; driving the sender after that raises and leaves it so.
C10_ResolvedAtMostOnce ==
    /\ resolutions <= 1
    /\ future.state = "done" => (Len(sent) >= 1 /\ future.result = sent[1])
    /\ (b_ret.op = "send" /\ Len(sent) >= 2) =>
           /\ b_ret.raised = "StopIteration"
           /\ future = [state |-> "done", result |-> sent[1]]

\* C10's case: X was delivered and the sender then driven with Y
C10_Witness ==
    /\ sent = <<"X", "Y">>
    /\ b_ret.raised = "StopIteration"
    /\ future.result = "X"

\* C21: a caller suspended on the future has no value, and leaves the
\* suspension only when the future is done, taking its result; a caller that
\* awaits a pending future is suspended, and one that awaits a done future
\* has the result at once, without being suspended; and a caller suspended
\* on a future that is done is eventually resumed with the result.
C21_SuspendedUntilDelivered ==
    /\ [](reader.state = "waiting" =>
              (reader.val = None /\ reader.suspended))
    /\ [][ /\ (reader.state = "waiting" /\ reader'.state # "waiting") =>
                  /\ future.state = "done"
                  /\ reader' = [state |-> "resumed", val |-> future.result,
                                suspended |-> TRUE]
           /\ (reader.state = "idle" /\ reader'.state # "idle") =>
                  IF future.state = "done"
                  THEN reader' = [state |-> "resumed", val |-> future.result,
                                  suspended |-> FALSE]
                  ELSE reader' = [state |-> "waiting", val |-> None,
                                  suspended |-> TRUE]
         ]_vars
    /\ (reader.state = "waiting" /\ future.state = "done")
           ~> (reader.state = "resumed" /\ reader.val = future.result)

\* C21's case: the caller awaited before any value was sent, was suspended,
\* and resumed with X once X was sent
C21_Witness ==
    /\ reader = [state |-> "resumed", val |-> "X", suspended |-> TRUE]
    /\ sent = <<"X">>
    /\ future = [state |-> "done", result |-> "X"]

\* the chunk whose callback the event at position i of the trace belongs to
ChunkOf(i) ==
    Cardinality({j \in 1..i : trace[j][1] = "arrived"})

\* the positions of the trace that hold an event of the kind
Positions(kind) == {i \in 1..Len(trace) : trace[i][1] = kind}

\* C22: on one connection a callback runs to its end before the next
\* begins (between two arrivals the callback of the first has returned),
\* pipelined requests are handed to the application in the order their
\* chunks arrived, each in the callback that ended its parsing, and the
\* body of a request is delivered after its parsing has ended and before
\* the body of any later request.
C22_NoInterleaving ==
    /\ \A i \in Positions("arrived") : \A j \in Positions("arrived") :
           i < j => \E m \in i..j : trace[m] = <<"returned", trace[i][2]>>
    /\ \A i \in Positions("error") : \A j \in Positions("arrived") :
           i < j => \E m \in i..j : trace[m] = <<"returned", trace[i][2]>>
    /\ \A i \in Positions("handed") :
           /\ \E m \in 1..i : /\ trace[m] = <<"parsed", trace[i][2]>>
                               /\ ChunkOf(m) = ChunkOf(i)
           /\ \A j \in Positions("handed") :
                  i < j => /\ trace[i][2] < trace[j][2]
                           /\ ChunkOf(i) < ChunkOf(j)
    /\ \A i \in Positions("body") :
           /\ \E m \in 1..i : trace[m] = <<"parsed", trace[i][2]>>
           /\ \A j \in Positions("body") :
                  trace[i][2] < trace[j][2] => i < j
           /\ \A j \in Positions("parsed") :
                  trace[i][2] < trace[j][2] => i < j

\* C22 witness: two pipelined requests with bodies were handed over and
\* had their bodies delivered, in four callbacks that have all returned,
\* while the task of the first request is still unfinished.
C22_Witness ==
    /\ Positions("handed") # {} /\ Cardinality(Positions("body")) = 2
    /\ Cardinality(Positions("returned")) = 4
    /\ Len(tasks) = 2
    /\ ~tasks[1].finished
    /\ frames = <<>>

\* this step is a data_received on a Connected protocol whose responder
\* raised, so that handle_error was called
ErrorHandled ==
    /\ events' = events + 1
    /\ p_ret'.op = "data_received"
    /\ p_ret'.before = "Connected"
    /\ p_ret'.reaction.kind = "raise"

\* this step is the data_received that follows one whose responder raised
DataAfterError ==
    /\ p_ret.op = "data_received"
    /\ p_ret.before = "Connected"
    /\ p_ret.reaction.kind = "raise"
    /\ events' = events + 1
    /\ p_ret'.op = "data_received"

\* C23: the error path changes nothing but what was written (to the
\* transport and to stderr): the transport, the connection state, the
\* responders, the tasks and the count of connections stay as they were,
\* whether handle_error ran to its end or raised; so the protocol is still
\* Connected after the error, and the data_received that follows is accepted
\* and fed to the responder that was fed the data that raised.
C23_ErrorOnlyWrites ==
    [][ /\ ErrorHandled =>
              /\ conn = "Connected" /\ conn' = "Connected"
              /\ UNCHANGED <<transport, responders, connects, tasks>>
              /\ Len(writes') <= Len(writes) + 1
              /\ SubSeq(writes', 1, Len(writes)) = writes
        /\ DataAfterError =>
              /\ p_ret'.before = "Connected"
              /\ ~(p_ret'.raised /\ p_ret'.reaction.kind # "raise")
              /\ Len(fed') = Len(fed) + 1
              /\ fed'[Len(fed')].responder = fed[Len(fed)].responder
      ]_vars

\* C23's case: on one connection the responder raised on the first data,
\* the error response was written, and the second data was fed to the same
\* responder, which handed a request to the application.
C23_Witness ==
    /\ conn = "Connected"
    /\ connects = 1
    /\ Len(fed) = 2
    /\ fed[1].responder = fed[2].responder
    /\ Len(writes) = 1
    /\ p_ret.op = "data_received"
    /\ p_ret.reaction.kind = "begin_application"
    /\ p_ret.nwrites = 1
    /\ Len(tasks) = 1

====
